---- MODULE Spec2Model ----
(***************************************************************************)
(* Model of half_america: the adjacency graph of graph/adjacency.py, the   *)
(* s-t flow network of graph/network.py, solve_partition of                *)
(* optimization/solver.py, the bisection of optimization/search.py, the    *)
(* thread-pool sweep and the cache of optimization/sweep.py, the           *)
(* precompute command of cli.py and postprocess/dissolve.py.               *)
(*                                                                         *)
(* Reals are exact rationals.  A rational is a pair <<num, den>> with      *)
(* den > 0; the float arithmetic of the source is modelled exactly.        *)
(***************************************************************************)
EXTENDS Integers, Sequences, FiniteSets, TLC

VARIABLES
    graph_data,   \* the GraphData every call works on (read-only)
    opt_call,     \* the latest solve_partition call: inputs, work done, outcome
    prev_call,    \* the solve_partition call before it
    search,       \* the running call of find_optimal_mu: its locals and its position
    sweep,        \* the running call of sweep_lambda: its locals, its futures
    command,      \* the precompute command: its options and its position
    cache_file,   \* the sweep cache file: whether it exists, and its content
    adjacency,    \* the running call of build_adjacency: its locals
    dissolve      \* the running call of dissolve_all_lambdas: its locals

vars == <<graph_data, opt_call, prev_call, search, sweep, command, cache_file,
          adjacency, dissolve>>

----------------------------------------------------------------------------
(* Bounds of the model *)

NumNodes == 3
MaxIterations == 3
NumLambdas == 2

----------------------------------------------------------------------------
(* Rationals *)

Rat(n, d) == <<n, d>>
RatLess(a, b) == a[1] * b[2] < b[1] * a[2]
RatLeq(a, b) == a[1] * b[2] <= b[1] * a[2]
RatEq(a, b) == a[1] * b[2] = b[1] * a[2]
RatAbs(a) == IF a[1] < 0 THEN <<0 - a[1], a[2]>> ELSE a
RatSub(a, b) == <<a[1] * b[2] - b[1] * a[2], a[2] * b[2]>>
RatAdd(a, b) == <<a[1] * b[2] + b[1] * a[2], a[2] * b[2]>>
RatMulInt(a, k) == <<a[1] * k, a[2]>>

RECURSIVE Gcd(_, _)
Gcd(a, b) == IF b = 0 THEN a ELSE Gcd(b, a % b)

\* a rational in lowest terms (a float has one representation per value)
RatNorm(a) ==
    LET m == IF a[1] < 0 THEN 0 - a[1] ELSE a[1]
        g == Gcd(m, a[2])
    IN  IF a[1] = 0 THEN <<0, 1>> ELSE <<a[1] \div g, a[2] \div g>>

\* the sum of f over the set S
RECURSIVE SumOver(_, _)
SumOver(f, S) ==
    IF S = {} THEN 0
    ELSE LET x == CHOOSE y \in S : TRUE IN f[x] + SumOver(f, S \ {x})

----------------------------------------------------------------------------
(* GraphData: graph/pipeline.py GraphData, graph/boundary.py GraphAttributes *)

Nodes == 0 .. (NumNodes - 1)

\* edges of a linear chain 0 -- 1 -- ... -- N-1, canonical (i < j)
ChainEdges == {<<i, i + 1>> : i \in 0 .. (NumNodes - 2)}

GraphAttributes(population, area, rho, edge_lengths) ==
    [population |-> population, area |-> area, rho |-> rho,
     edge_lengths |-> edge_lengths]

GraphData(edges, attributes) ==
    [edges |-> edges, attributes |-> attributes,
     num_nodes |-> NumNodes, num_edges |-> Cardinality(edges)]

None == [none |-> TRUE]

\* The inputs the model draws a GraphData from: a chain of NumNodes nodes with
\* any of these populations and areas on each node, one boundary length on
\* every edge (lambda = 0 gives the edges no capacity) and a length scale rho
\* that is not 1, so that rho and rho^2 differ.
PopulationInputs == {0, 1, 2}
AreaInputs == {1, 2}
RhoInputs == {2}
EdgeLengthInputs == {1}

GraphInputs ==
    {GraphData(ChainEdges,
               GraphAttributes(p, a, r, [e \in ChainEdges |-> l]))
       : p \in [Nodes -> PopulationInputs], a \in [Nodes -> AreaInputs],
         r \in RhoInputs, l \in EdgeLengthInputs}

\* lambda_param and mu of the modelled calls, valid and invalid
LambdaInputs == {Rat(0 - 1, 2), Rat(0, 1), Rat(1, 2), Rat(1, 1), Rat(3, 2)}
MuInputs == {Rat(0 - 1, 2), Rat(0, 1), Rat(1, 8), Rat(1, 4), Rat(1, 2)}

----------------------------------------------------------------------------
(* graph/network.py *)

\* exact conversion of a rational to an integer count of 1/scale units
ToUnits(r, scale) == r[1] * (scale \div r[2])

\* t-link toward the sink: (1 - lambda) * a_i / rho^2, as it would be with the
\* area divided by rho instead of rho^2
sink_cap_rho(attributes, lambda_param, i) ==
    Rat((lambda_param[2] - lambda_param[1]) * attributes.area[i] * attributes.rho,
        lambda_param[2] * attributes.rho * attributes.rho)

\* t-link toward the sink as it would be with the area not normalised:
\* (1 - lambda) * a_i
sink_cap_unscaled(attributes, lambda_param, i) ==
    Rat((lambda_param[2] - lambda_param[1]) * attributes.area[i],
        lambda_param[2])

\* t-link toward the sink: (1 - lambda) * a_i / rho^2
sink_cap(attributes, lambda_param, i) ==
    Rat((lambda_param[2] - lambda_param[1]) * attributes.area[i],
        lambda_param[2] * attributes.rho * attributes.rho)

\* the t-link from the source as it would be without the population
source_cap_unweighted(attributes, mu, i) == mu

\* t-link from the source: mu * p_i
source_cap(attributes, mu, i) == RatMulInt(mu, attributes.population[i])

\* build_flow_network: the t-links and the symmetric n-links.  Capacities are
\* kept as integer multiples of 1/scale, scale = den(lambda)*den(mu)*rho^2.
build_flow_network(attributes, edges, lambda_param, mu) ==
    LET rho == attributes.rho
        scale == lambda_param[2] * mu[2] * rho * rho
        capacity(e) ==
            Rat(lambda_param[1] * attributes.edge_lengths[e],
                lambda_param[2] * rho)
    IN  [num_nodes |-> Cardinality(DOMAIN attributes.population),
         scale |-> scale,
         tedges |-> [i \in DOMAIN attributes.population |->
                       [source_cap |-> ToUnits(source_cap(attributes, mu, i), scale),
                        sink_cap |-> ToUnits(sink_cap(attributes, lambda_param, i),
                                             scale)]],
         edges |-> [e \in edges |-> ToUnits(capacity(e), scale)]]

\* capacity of the s-t cut whose source side is S
CutCapacity(g, S) ==
    SumOver([i \in DOMAIN g.tedges |->
               IF i \in S THEN g.tedges[i].sink_cap
                          ELSE g.tedges[i].source_cap], DOMAIN g.tedges)
    + SumOver([e \in DOMAIN g.edges |->
               IF (e[1] \in S) # (e[2] \in S) THEN g.edges[e] ELSE 0],
              DOMAIN g.edges)

\* the source sides of the s-t cuts of g
Cuts(g) == SUBSET (DOMAIN g.tedges)

\* the capacity of a minimum cut of g
MinCutCapacity(g) ==
    LET capacities == {CutCapacity(g, S) : S \in Cuts(g)}
    IN  CHOOSE v \in capacities : \A w \in capacities : v <= w

\* the source sides of the minimum cuts of g
MinCuts(g) ==
    LET flow == MinCutCapacity(g)
    IN  {S \in Cuts(g) : CutCapacity(g, S) = flow}

\* Graph.maxflow(): the maximum flow equals the capacity of a minimum cut.  A
\* node ends in the sink tree exactly when the sink can be reached from it in
\* the residual graph, that is, when it is on the sink side of every minimum
\* cut; Graph.get_segment answers SOURCE (0) for every other node.
maxflow(g) ==
    LET flow == MinCutCapacity(g)
        source == UNION {S \in Cuts(g) : CutCapacity(g, S) = flow}
    IN  [flow |-> flow, scale |-> g.scale,
         segment |-> [i \in DOMAIN g.tedges |-> IF i \in source THEN 0 ELSE 1]]

\* get_partition with the segments read the wrong way round
get_partition_sink(g, num_nodes) ==
    [i \in 0 .. (num_nodes - 1) |-> g.segment[i] = 1]

\* get_partition leaving out node 0
get_partition_short(g, num_nodes) ==
    [i \in 1 .. (num_nodes - 1) |-> g.segment[i] = 0]

get_partition(g, num_nodes) ==
    [i \in 0 .. (num_nodes - 1) |-> g.segment[i] = 0]

\* the nodes a partition selects
Selected(partition) == {i \in DOMAIN partition : partition[i]}

compute_energy(attributes, edges, partition, lambda_param, mu) ==
    LET rho == attributes.rho
        cut_length == SumOver([e \in edges |->
                         IF partition[e[1]] # partition[e[2]]
                         THEN attributes.edge_lengths[e] ELSE 0], edges)
        boundary_cost == Rat(lambda_param[1] * cut_length, lambda_param[2] * rho)
        area_cost ==
            Rat((lambda_param[2] - lambda_param[1])
                  * SumOver(attributes.area, Selected(partition)),
                lambda_param[2] * rho * rho)
        population_reward ==
            RatMulInt(mu, SumOver(attributes.population, Selected(partition)))
    IN  RatNorm(RatSub(RatAdd(boundary_cost, area_cost), population_reward))

----------------------------------------------------------------------------
(* optimization/solver.py *)

TARGET_TOLERANCE == Rat(1, 100)

SolverWork == <<"build_flow_network", "maxflow", "get_partition">>

ValueError(message) ==
    [outcome |-> "ValueError", message |-> message, work |-> <<>>,
     result |-> None]

\* the parameter validation, as it would be without the check of mu
validate_lambda_only(lambda_param, mu) ==
    IF ~(RatLeq(Rat(0, 1), lambda_param) /\ RatLeq(lambda_param, Rat(1, 1)))
    THEN "lambda_param must be in [0, 1]"
    ELSE ""

\* the parameter validation: the message of the ValueError raised, "" if none
validate(lambda_param, mu) ==
    IF ~(RatLeq(Rat(0, 1), lambda_param) /\ RatLeq(lambda_param, Rat(1, 1)))
    THEN "lambda_param must be in [0, 1]"
    ELSE IF RatLess(mu, Rat(0, 1))
    THEN "mu must be non-negative"
    ELSE ""

\* the statistics solve_partition computes from the solved network
OptimizationResult(gd, lambda_param, mu, flow, partition) ==
    LET attrs == gd.attributes
        selected_population == SumOver(attrs.population, Selected(partition))
        selected_area == SumOver(attrs.area, Selected(partition))
        total_population == SumOver(attrs.population, DOMAIN attrs.population)
        total_area == SumOver(attrs.area, DOMAIN attrs.area)
        population_fraction == RatNorm(Rat(selected_population, total_population))
        satisfied_target ==
            RatLeq(RatAbs(RatSub(population_fraction, Rat(1, 2))), TARGET_TOLERANCE)
    IN  IF total_population = 0
        THEN [outcome |-> "ZeroDivisionError", message |-> "division by zero",
              work |-> SolverWork, result |-> None]
        ELSE [outcome |-> "returned", message |-> "", work |-> SolverWork,
              result |->
                [partition |-> partition,
                 selected_population |-> selected_population,
                 selected_area |-> selected_area,
                 total_population |-> total_population,
                 total_area |-> total_area,
                 population_fraction |-> population_fraction,
                 satisfied_target |-> satisfied_target,
                 lambda_param |-> lambda_param,
                 mu |-> mu,
                 flow_value |-> flow]]

solve_partition(gd, lambda_param, mu) ==
    IF validate(lambda_param, mu) # ""
    THEN ValueError(validate(lambda_param, mu))
    ELSE LET g == maxflow(build_flow_network(gd.attributes, gd.edges,
                                             lambda_param, mu))
         IN  OptimizationResult(gd, lambda_param, mu,
                                RatNorm(Rat(g.flow, g.scale)),
                                get_partition(g, gd.num_nodes))

NoCall == [called |-> FALSE]

\* find_optimal_mu is not running
NoSearch == [pc |-> "idle"]

\* sweep_lambda is not running
NoSweep == [pc |-> "idle"]

\* the file at the cache path: absent, or present with this content
NoFile == [exists |-> FALSE, content |-> <<>>]
File(content) == [exists |-> TRUE, content |-> content]

\* no command has been given
NoCommand == [pc |-> "idle", loaded |-> None]

\* build_adjacency is not running
NoAdjacency == [pc |-> "idle"]

\* dissolve_all_lambdas is not running
NoDissolve == [pc |-> "idle"]

Call(lambda_param, mu, done) ==
    [called |-> TRUE, lambda_param |-> lambda_param, mu |-> mu,
     outcome |-> done.outcome, message |-> done.message, work |-> done.work,
     result |-> done.result]

\* One call of solve_partition on the shared GraphData.  The model follows a
\* graph through two calls, the second at the lambda of the first.
SolvePartition ==
    \E lambda_param \in LambdaInputs, mu \in MuInputs :
        /\ ~prev_call.called
        /\ opt_call.called => lambda_param = opt_call.lambda_param
        /\ opt_call' = Call(lambda_param, mu,
                            solve_partition(graph_data, lambda_param, mu))
        /\ prev_call' = opt_call
        /\ UNCHANGED <<graph_data, search, sweep, command, cache_file,
                 adjacency, dissolve>>

SolveInit ==
    /\ graph_data \in GraphInputs
    /\ opt_call = NoCall
    /\ prev_call = NoCall
    /\ search = NoSearch
    /\ sweep = NoSweep
    /\ command = NoCommand
    /\ cache_file = NoFile
    /\ adjacency = NoAdjacency
    /\ dissolve = NoDissolve

SolveNext == SolvePartition

SolveSpec == SolveInit /\ [][SolveNext]_vars

----------------------------------------------------------------------------
(* optimization/search.py *)

\* DEFAULT_MAX_ITERATIONS is 50 in the source; the model runs the default
\* search with the iteration cap of its bound.
DEFAULT_MAX_ITERATIONS == MaxIterations
DEFAULT_MU_MIN == Rat(0, 1)

TotalPopulation(gd) ==
    SumOver(gd.attributes.population, DOMAIN gd.attributes.population)

\* _estimate_mu_max as it would be without the factor of 10
_estimate_mu_max_unscaled(gd) ==
    LET attrs == gd.attributes
        total_area == SumOver(attrs.area, DOMAIN attrs.area)
        total_pop == SumOver(attrs.population, DOMAIN attrs.population)
    IN  RatNorm(Rat(total_area, attrs.rho * attrs.rho * total_pop))

_estimate_mu_max(gd) ==
    LET attrs == gd.attributes
        total_area == SumOver(attrs.area, DOMAIN attrs.area)
        total_pop == SumOver(attrs.population, DOMAIN attrs.population)
        rho_sq == attrs.rho * attrs.rho
    IN  RatNorm(Rat(total_area * 10, rho_sq * total_pop))

SearchResult(result, iterations, mu_history, converged) ==
    [result |-> result, iterations |-> iterations, mu_history |-> mu_history,
     converged |-> converged]

\* error = result.selected_population - target_pop
SearchError(gd, s, result) ==
    RatSub(Rat(result.selected_population, 1),
           RatMulInt(s.target_fraction, TotalPopulation(gd)))

\* abs(error) <= pop_tolerance
WithinTolerance(gd, s, result) ==
    RatLeq(RatAbs(SearchError(gd, s, result)),
           RatMulInt(s.tolerance, TotalPopulation(gd)))

\* find_optimal_mu up to the loop: the locals before the first iteration;
\* solved logs the (lambda_param, mu) of every call of solve_partition.
\* mu_max = None asks for the estimate.  With max_iterations = 0 the loop body
\* never runs and the assertion on result fails.
find_optimal_mu(gd, lambda_param, target_fraction, tolerance, max_iterations, mu_min, mu_max) ==
    [pc |-> IF max_iterations > 0 THEN "loop" ELSE "raised",
     error |-> IF max_iterations > 0 THEN "" ELSE "AssertionError",
     lambda_param |-> lambda_param,
     target_fraction |-> target_fraction,
     tolerance |-> tolerance,
     max_iterations |-> max_iterations,
     initial_mu_min |-> mu_min,
     initial_mu_max |-> IF mu_max = None THEN _estimate_mu_max(gd) ELSE mu_max,
     mu_min |-> mu_min,
     mu_max |-> IF mu_max = None THEN _estimate_mu_max(gd) ELSE mu_max,
     mu_history |-> <<>>,
     result |-> None,
     iteration |-> 0,
     solver_calls |-> 0,
     solved |-> <<>>,
     returned |-> None]

\* the trial of the next iteration, as it would be at the upper end of the
\* bracket
Midpoint_upper(s) == s.mu_max

\* the midpoint the next iteration tries
Midpoint(s) == RatNorm(Rat(s.mu_min[1] * s.mu_max[2] + s.mu_max[1] * s.mu_min[2],
                           2 * s.mu_min[2] * s.mu_max[2]))

\* the convergence check, as it would be without the abs() around the error
converged_signed(gd, s, result) ==
    RatLeq(SearchError(gd, s, result),
           RatMulInt(s.tolerance, TotalPopulation(gd)))

\* the return after the loop, as it would be if it handed back the result of
\* the trial before the last one
did_not_converge_stale(s, result, mu_history) ==
    SearchResult(IF s.result = None THEN result ELSE s.result,
                 s.max_iterations, mu_history, FALSE)

\* the return after the loop, as it would be with the loop variable for the
\* iteration count
did_not_converge_miscounted(s, result, mu_history) ==
    SearchResult(result, s.iteration, mu_history, FALSE)

\* the return after the loop: "Did not converge"
did_not_converge(s, result, mu_history) ==
    SearchResult(result, s.max_iterations, mu_history, FALSE)

\* the convergence check of one trial
converged_now(gd, s, result) == WithinTolerance(gd, s, result)

\* One iteration of the loop of find_optimal_mu, and the return after the
\* last one: the trial mu, the solve, the convergence check, the new bracket.
iterate(gd, s) ==
    LET mu == Midpoint(s)
        mu_history == Append(s.mu_history, mu)
        call == solve_partition(gd, s.lambda_param, mu)
        result == call.result
        tried == [s EXCEPT !.mu_history = mu_history,
                           !.solver_calls = s.solver_calls + 1,
                           !.solved = Append(s.solved, <<s.lambda_param, mu>>)]
    IN  IF call.outcome # "returned"
        THEN [tried EXCEPT !.pc = "raised", !.error = call.outcome]
        ELSE IF converged_now(gd, s, result)
        THEN [tried EXCEPT !.pc = "done", !.result = result,
                           !.iteration = s.iteration + 1,
                           !.returned = SearchResult(result, s.iteration + 1,
                                                     mu_history, TRUE)]
        ELSE LET stepped ==
                    IF result.selected_population * s.target_fraction[2]
                         < s.target_fraction[1] * TotalPopulation(gd)
                    THEN [tried EXCEPT !.mu_min = mu, !.result = result,
                                       !.iteration = s.iteration + 1]
                    ELSE [tried EXCEPT !.mu_max = mu, !.result = result,
                                       !.iteration = s.iteration + 1]
             IN  IF s.iteration + 1 < s.max_iterations
                 THEN stepped
                 ELSE [stepped EXCEPT
                         !.pc = "done",
                         !.returned = did_not_converge(s, result, mu_history)]

\* the arguments the model calls find_optimal_mu with
SearchLambdaInputs == {Rat(0, 1), Rat(1, 2), Rat(3, 2)}
TargetFractionInputs == {Rat(1, 2), Rat(3, 10)}
ToleranceInputs == {Rat(1, 100), Rat(1, 5)}
MuMaxInputs == {None, Rat(1, 1)}

\* mu_min: the default, and values that with mu_max = 1 give a bracket of one
\* point and a bracket whose ends are swapped; the code checks neither
MuMinInputs == {DEFAULT_MU_MIN, Rat(1, 1), Rat(2, 1)}

\* a chain where half of the population is selected only for mu in a short
\* interval: node 0 is taken first (area/population 1), then node 1 (30),
\* then the remaining nodes (151/5), and nodes 0 and 1 hold half of the people
NarrowTargetGraphs ==
    {GraphData(ChainEdges,
               GraphAttributes(
                   [i \in Nodes |-> IF i = 0 THEN 4 * (NumNodes - 2)
                                    ELSE IF i = 1 THEN NumNodes - 2 ELSE 5],
                   [i \in Nodes |-> IF i = 0 THEN 4 * (NumNodes - 2)
                                    ELSE IF i = 1 THEN 30 * (NumNodes - 2)
                                    ELSE 151],
                   r, [e \in ChainEdges |-> l]))
       : r \in RhoInputs, l \in EdgeLengthInputs}

\* a chain whose node 0 is large and nearly empty: at the estimated mu_max its
\* reward stays below its area cost
SparseNodeGraphs ==
    {GraphData(ChainEdges,
               GraphAttributes([i \in Nodes |-> IF i = 0 THEN 1 ELSE 20],
                               [i \in Nodes |-> IF i = 0 THEN 100 ELSE 1],
                               r, [e \in ChainEdges |-> l]))
       : r \in RhoInputs, l \in EdgeLengthInputs}

\* the graphs the searches run on: those of GraphInputs with equal areas and
\* somebody living there (on the others every solve divides by zero), the
\* chain with the short target interval and the chain with the sparse node
SearchGraphs ==
    {gd \in GraphInputs :
        /\ TotalPopulation(gd) > 0
        /\ \A i, j \in Nodes : gd.attributes.area[i] = gd.attributes.area[j]}
      \cup NarrowTargetGraphs \cup SparseNodeGraphs

\* a call of find_optimal_mu, up to its loop
FindOptimalMu ==
    /\ search.pc = "idle"
    /\ \E lambda_param \in SearchLambdaInputs,
          target_fraction \in TargetFractionInputs,
          tolerance \in ToleranceInputs,
          max_iterations \in 0 .. MaxIterations,
          mu_min \in MuMinInputs,
          mu_max \in MuMaxInputs :
          search' = find_optimal_mu(graph_data, lambda_param, target_fraction,
                                    tolerance, max_iterations, mu_min, mu_max)
    /\ UNCHANGED <<graph_data, opt_call, prev_call, sweep, command, cache_file,
                 adjacency, dissolve>>

\* one iteration of its loop
SearchIterate ==
    /\ search.pc = "loop"
    /\ search' = iterate(graph_data, search)
    /\ UNCHANGED <<graph_data, opt_call, prev_call, sweep, command, cache_file,
                 adjacency, dissolve>>

SearchInit ==
    /\ graph_data \in SearchGraphs
    /\ opt_call = NoCall
    /\ prev_call = NoCall
    /\ search = NoSearch
    /\ sweep = NoSweep
    /\ command = NoCommand
    /\ cache_file = NoFile
    /\ adjacency = NoAdjacency
    /\ dissolve = NoDissolve

SearchNext == FindOptimalMu \/ SearchIterate

SearchSpec == SearchInit /\ [][SearchNext]_vars

----------------------------------------------------------------------------
(* optimization/sweep.py *)

\* the wall-clock fields elapsed_seconds and total_elapsed_seconds are left out
LambdaResult(lambda_param, search_result) ==
    [lambda_param |-> lambda_param, search_result |-> search_result]

\* the Future of executor.submit(_run_single_lambda, graph_data, lam, ...)
Future(lam) ==
    [lambda_param |-> lam, state |-> "pending", search |-> NoSearch,
     result |-> None, exception |-> ""]

\* the total as it would be if it counted the results
TotalIterations_count(results, keys) ==
    Cardinality(keys)

\* sum(r.search_result.iterations for r in results.values())
RECURSIVE TotalIterations(_, _)
TotalIterations(results, keys) ==
    IF keys = {} THEN 0
    ELSE LET lam == CHOOSE l \in keys : TRUE
         IN  results[lam].search_result.iterations
               + TotalIterations(results, keys \ {lam})

\* the SweepResult as it would be with the lambda values listed backwards
SweepResult_reversed(results, lambda_values) ==
    [results |-> results,
     lambda_values |->
        [i \in 1 .. Len(lambda_values) |->
            lambda_values[Len(lambda_values) + 1 - i]],
     total_iterations |-> TotalIterations(results, DOMAIN results),
     all_converged |->
        \A lam \in DOMAIN results : results[lam].search_result.converged]

SweepResult(results, lambda_values) ==
    [results |-> results,
     lambda_values |-> lambda_values,
     total_iterations |-> TotalIterations(results, DOMAIN results),
     all_converged |->
        \A lam \in DOMAIN results : results[lam].search_result.converged]

\* sweep_lambda up to the collection loop: every task submitted, none
\* collected; collect_order logs the futures in the order as_completed
\* yields them, pending_at_failure the futures not yet started when the loop
\* meets a failure, cancel_next is the position of the cancellation loop
sweep_lambda(lambda_values, target_fraction, tolerance, max_workers, raise_on_failure) ==
    [pc |-> "collecting",
     lambda_values |-> lambda_values,
     target_fraction |-> target_fraction,
     tolerance |-> tolerance,
     max_workers |-> max_workers,
     raise_on_failure |-> raise_on_failure,
     futures |-> [i \in 1 .. Len(lambda_values) |-> Future(lambda_values[i])],
     collected |-> {},
     collect_order |-> <<>>,
     results |-> [lam \in {} |-> None],
     error |-> "",
     pending_at_failure |-> {},
     cancel_next |-> 0,
     returned |-> None]

\* _run_single_lambda as it would be if it left the tolerance at its default
_run_single_lambda_default(gd, lambda_param, target_fraction, tolerance) ==
    find_optimal_mu(gd, lambda_param, target_fraction, TARGET_TOLERANCE,
                    DEFAULT_MAX_ITERATIONS, DEFAULT_MU_MIN, None)

\* _run_single_lambda: the call of find_optimal_mu with the sweep's target and
\* tolerance and every other argument at its default
_run_single_lambda(gd, lambda_param, target_fraction, tolerance) ==
    find_optimal_mu(gd, lambda_param, target_fraction, tolerance,
                    DEFAULT_MAX_ITERATIONS, DEFAULT_MU_MIN, None)

\* the future of a task whose search has made one more step
future_after(f, s) ==
    IF s.pc = "done"
    THEN [f EXCEPT !.state = "finished", !.search = s,
                   !.result = LambdaResult(f.lambda_param, s.returned)]
    ELSE IF s.pc = "raised"
    THEN [f EXCEPT !.state = "finished", !.search = s, !.exception = s.error]
    ELSE [f EXCEPT !.search = s]

\* f.cancel() as it would be if it left the future in the queue
cancel_ignored(future) == future

\* f.cancel(): only a pending future is cancelled
cancel(future) ==
    IF future.state = "pending"
    THEN [future EXCEPT !.state = "cancelled"]
    ELSE future

\* the futures no worker has taken yet
Pending(sw) == {i \in DOMAIN sw.futures : sw.futures[i].state = "pending"}

\* results[lam] = result, with the earlier results lost
store_last(results, lam, result) ==
    [l \in {lam} |-> result]

\* results[lam] = result
store(results, lam, result) ==
    [l \in DOMAIN results \cup {lam} |-> IF l = lam THEN result ELSE results[l]]

\* the loop turn as it would be if a failure in fail-fast mode ended the sweep
\* with the SweepResult of the lambdas collected so far
collect_partial(sw, i) ==
    LET f == sw.futures[i]
        seen == [sw EXCEPT !.collected = sw.collected \cup {i},
                           !.collect_order = Append(sw.collect_order, i)]
    IN  IF f.exception # ""
        THEN [seen EXCEPT !.pc = "shutdown", !.error = f.exception]
        ELSE LET results ==
                     [l \in DOMAIN sw.results \cup {f.lambda_param} |->
                         IF l = f.lambda_param THEN f.result ELSE sw.results[l]]
             IN  IF (~f.result.search_result.converged /\ sw.raise_on_failure)
                      \/ seen.collected = DOMAIN sw.futures
                 THEN [seen EXCEPT !.pc = "returned", !.results = results,
                                   !.returned =
                                      [results |-> results,
                                       lambda_values |-> sw.lambda_values,
                                       total_iterations |-> 0,
                                       all_converged |-> FALSE]]
                 ELSE [seen EXCEPT !.results = results]

\* the handler of "except Exception" as it would be if it wrapped the
\* exception of the task in a RuntimeError
reraise_wrapped(future) == "RuntimeError"

\* the handler of "except Exception": the bare raise hands on the exception
\* that future.result() raised
reraise(future) == future.exception

\* the early termination check with raise_on_failure ignored
must_raise_never(sw, result) ==
    FALSE

\* the early termination check on a collected result
must_raise(sw, result) ==
    ~result.search_result.converged /\ sw.raise_on_failure

\* One turn of the loop over as_completed for the finished future i: the
\* result is stored, a failure enters the loop that cancels the futures
\* before raising, and after the last future the SweepResult is built and
\* returned.
collect(sw, i) ==
    LET f == sw.futures[i]
        seen == [sw EXCEPT !.collected = sw.collected \cup {i},
                           !.collect_order = Append(sw.collect_order, i)]
    IN  IF f.exception # ""
        THEN [seen EXCEPT !.pc = "cancelling", !.error = reraise(f),
                          !.pending_at_failure = Pending(sw),
                          !.cancel_next = 1]
        ELSE LET results == store(sw.results, f.lambda_param, f.result)
             IN  IF must_raise(sw, f.result)
                 THEN [seen EXCEPT !.pc = "cancelling",
                                   !.error = "RuntimeError",
                                   !.results = results,
                                   !.pending_at_failure = Pending(sw),
                                   !.cancel_next = 1]
                 ELSE IF seen.collected = DOMAIN sw.futures
                 THEN [seen EXCEPT !.pc = "returned", !.results = results,
                                   !.returned =
                                      SweepResult(results, sw.lambda_values)]
                 ELSE [seen EXCEPT !.results = results]

Running(sw) == {i \in DOMAIN sw.futures : sw.futures[i].state = "running"}

\* the arguments the model calls sweep_lambda with
SweepLambdaInputs == {Rat(0, 1), Rat(1, 2), Rat(3, 2)}
SweepToleranceInputs == {Rat(1, 100), Rat(1, 5), Rat(1, 2)}
MaxWorkersInputs == {1, 2}

\* the lists of distinct lambda values, of length 1 to NumLambdas
LambdaLists ==
    UNION {{lv \in [1 .. n -> SweepLambdaInputs] :
               \A i, j \in 1 .. n : lv[i] = lv[j] => i = j}
             : n \in 1 .. NumLambdas}

\* the graphs the sweeps run on: those of SearchGraphs with unit areas, every
\* node populated and the population not decreasing along the chain
SweepGraphs ==
    {gd \in SearchGraphs :
        \A i \in Nodes :
            /\ gd.attributes.area[i] = 1
            /\ gd.attributes.population[i] > 0
            /\ i > 0 => gd.attributes.population[i - 1]
                           <= gd.attributes.population[i]}

\* a call of sweep_lambda: the tasks are submitted
SweepLambda ==
    /\ sweep.pc = "idle"
    /\ \E lambda_values \in LambdaLists,
          tolerance \in SweepToleranceInputs,
          max_workers \in MaxWorkersInputs,
          raise_on_failure \in BOOLEAN :
          sweep' = sweep_lambda(lambda_values, Rat(1, 2), tolerance,
                                max_workers, raise_on_failure)
    /\ UNCHANGED <<graph_data, opt_call, prev_call, search, command, cache_file,
                 adjacency, dissolve>>

\* a worker thread takes the next task off the queue and enters
\* _run_single_lambda
TaskStart(i) ==
    /\ sweep.pc \in {"collecting", "cancelling", "shutdown"}
    /\ i \in DOMAIN sweep.futures
    /\ sweep.futures[i].state = "pending"
    /\ \A j \in 1 .. (i - 1) : sweep.futures[j].state # "pending"
    /\ Cardinality(Running(sweep)) < sweep.max_workers
    /\ sweep' = [sweep EXCEPT
                   !.futures[i].state = "running",
                   !.futures[i].search =
                       _run_single_lambda(graph_data,
                                          sweep.futures[i].lambda_param,
                                          sweep.target_fraction,
                                          sweep.tolerance)]
    /\ UNCHANGED <<graph_data, opt_call, prev_call, search, command, cache_file,
                 adjacency, dissolve>>

\* a running task makes one iteration of its search; the last one finishes
\* the future with the LambdaResult, an exception finishes it with the error
TaskIterate(i) ==
    /\ sweep.pc \in {"collecting", "cancelling", "shutdown"}
    /\ i \in DOMAIN sweep.futures
    /\ sweep.futures[i].state = "running"
    /\ sweep' = [sweep EXCEPT
                   !.futures[i] =
                       future_after(sweep.futures[i],
                                    iterate(graph_data, sweep.futures[i].search))]
    /\ UNCHANGED <<graph_data, opt_call, prev_call, search, command, cache_file,
                 adjacency, dissolve>>

\* as_completed yields a finished future and the loop body handles it
Collect(i) ==
    /\ sweep.pc = "collecting"
    /\ i \in DOMAIN sweep.futures
    /\ sweep.futures[i].state = "finished"
    /\ i \notin sweep.collected
    /\ sweep' = collect(sweep, i)
    /\ UNCHANGED <<graph_data, opt_call, prev_call, search, command, cache_file,
                 adjacency, dissolve>>

\* one turn of "for f in future_to_lambda: f.cancel()"; the workers go on
\* taking tasks off the queue while the loop runs, and the raise follows it
Cancel ==
    /\ sweep.pc = "cancelling"
    /\ LET i == sweep.cancel_next
       IN  sweep' = [sweep EXCEPT
                       !.futures[i] = cancel(sweep.futures[i]),
                       !.cancel_next = i + 1,
                       !.pc = IF i = Len(sweep.futures) THEN "shutdown"
                              ELSE "cancelling"]
    /\ UNCHANGED <<graph_data, opt_call, prev_call, search, command, cache_file,
                 adjacency, dissolve>>

\* the with block is left on an exception: shutdown(wait=True) has joined the
\* workers, and the exception reaches the caller
Propagate ==
    /\ sweep.pc = "shutdown"
    /\ Running(sweep) = {}
    /\ sweep' = [sweep EXCEPT !.pc = "raised"]
    /\ UNCHANGED <<graph_data, opt_call, prev_call, search, command, cache_file,
                 adjacency, dissolve>>

SweepInit ==
    /\ graph_data \in SweepGraphs
    /\ opt_call = NoCall
    /\ prev_call = NoCall
    /\ search = NoSearch
    /\ sweep = NoSweep
    /\ command = NoCommand
    /\ cache_file = NoFile
    /\ adjacency = NoAdjacency
    /\ dissolve = NoDissolve

SweepNext ==
    \/ SweepLambda
    \/ \E i \in 1 .. NumLambdas : TaskStart(i)
    \/ \E i \in 1 .. NumLambdas : TaskIterate(i)
    \/ \E i \in 1 .. NumLambdas : Collect(i)
    \/ Cancel
    \/ Propagate

SweepSpec == SweepInit /\ [][SweepNext]_vars

----------------------------------------------------------------------------
(* optimization/sweep.py, save_sweep_result and load_sweep_result: pickle *)

\* one opcode of the pickle stream with its argument
Op(code, arg) == [op |-> code, arg |-> arg]

RECURSIVE Flatten(_)
Flatten(seqs) ==
    IF seqs = <<>> THEN <<>> ELSE Head(seqs) \o Flatten(Tail(seqs))

dump_float(x) == <<Op("BINFLOAT", x)>>
dump_int(n) == <<Op("BININT", n)>>
dump_bool(b) == <<Op(IF b THEN "NEWTRUE" ELSE "NEWFALSE", 0)>>

\* a boolean ndarray: its length, then one byte per element
dump_ndarray(a) ==
    LET n == Cardinality(DOMAIN a)
    IN  <<Op("NDARRAY", n)>>
          \o [k \in 1 .. n |-> Op("BYTE", IF a[k - 1] THEN 1 ELSE 0)]

\* a list of floats
dump_list(floats) ==
    IF floats = <<>>
    THEN <<Op("EMPTY_LIST", 0)>>
    ELSE <<Op("EMPTY_LIST", 0), Op("MARK", 0)>>
           \o Flatten([k \in 1 .. Len(floats) |-> dump_float(floats[k])])
           \o <<Op("APPENDS", 0)>>

\* a NamedTuple: its class, then its fields in the order of the class
dump_namedtuple(class, fields) ==
    <<Op("GLOBAL", class), Op("MARK", 0)>>
      \o Flatten(fields) \o <<Op("TUPLE", 0), Op("REDUCE", 0)>>

dump_OptimizationResult(r) ==
    dump_namedtuple("OptimizationResult",
        <<dump_ndarray(r.partition),
          dump_int(r.selected_population),
          dump_float(r.selected_area),
          dump_int(r.total_population),
          dump_float(r.total_area),
          dump_float(r.population_fraction),
          dump_bool(r.satisfied_target),
          dump_float(r.lambda_param),
          dump_float(r.mu),
          dump_float(r.flow_value)>>)

dump_SearchResult(sr) ==
    dump_namedtuple("SearchResult",
        <<dump_OptimizationResult(sr.result),
          dump_int(sr.iterations),
          dump_list(sr.mu_history),
          dump_bool(sr.converged)>>)

dump_LambdaResult(lr) ==
    dump_namedtuple("LambdaResult",
        <<dump_float(lr.lambda_param), dump_SearchResult(lr.search_result)>>)

\* the results dict, its items in insertion order
dump_dict(results, key_order) ==
    IF key_order = <<>>
    THEN <<Op("EMPTY_DICT", 0)>>
    ELSE <<Op("EMPTY_DICT", 0), Op("MARK", 0)>>
           \o Flatten([k \in 1 .. Len(key_order) |->
                          dump_float(key_order[k])
                            \o dump_LambdaResult(results[key_order[k]])])
           \o <<Op("SETITEMS", 0)>>

dump_SweepResult(result, key_order) ==
    dump_namedtuple("SweepResult",
        <<dump_dict(result.results, key_order),
          dump_list(result.lambda_values),
          dump_int(result.total_iterations),
          dump_bool(result.all_converged)>>)

\* pickle.dump(result, f): the stream written to the file
pickle_dump(result, key_order) ==
    <<Op("PROTO", 4)>> \o dump_SweepResult(result, key_order)
      \o <<Op("STOP", 0)>>

\* an entry of the unpickler's stack: a value or the mark
Item(kind, val) == [kind |-> kind, val |-> val]

\* the position of the topmost mark on the stack
TopMark(stack) ==
    CHOOSE m \in 1 .. Len(stack) :
        /\ stack[m].kind = "mark"
        /\ \A j \in (m + 1) .. Len(stack) : stack[j].kind # "mark"

\* the values above the topmost mark
AboveMark(stack) ==
    [k \in 1 .. (Len(stack) - TopMark(stack)) |->
        stack[TopMark(stack) + k].val]

\* the call class(*args) of a REDUCE
reduce(class, args) ==
    IF class = "OptimizationResult"
    THEN [partition |-> args[1], selected_population |-> args[2],
          selected_area |-> args[3], total_population |-> args[4],
          total_area |-> args[5], population_fraction |-> args[6],
          satisfied_target |-> args[7], lambda_param |-> args[8],
          mu |-> args[9], flow_value |-> args[10]]
    ELSE IF class = "SearchResult"
    THEN [result |-> args[1], iterations |-> args[2],
          mu_history |-> args[3], converged |-> args[4]]
    ELSE IF class = "LambdaResult"
    THEN [lambda_param |-> args[1], search_result |-> args[2]]
    ELSE [results |-> args[1], lambda_values |-> args[2],
          total_iterations |-> args[3], all_converged |-> args[4]]

\* the dict d after d[k] = v for the key, value pairs of items, in order
RECURSIVE setitems(_, _)
setitems(d, items) ==
    IF items = <<>> THEN d
    ELSE LET k == items[1]
             v == items[2]
         IN  setitems([x \in DOMAIN d \cup {k} |-> IF x = k THEN v ELSE d[x]],
                      SubSeq(items, 3, Len(items)))

\* one opcode of the stream run on the unpickler's stack
step(stack, token) ==
    LET code == token.op
        arg == token.arg
        n == Len(stack)
        push(v) == Append(stack, Item("value", v))
    IN  IF code \in {"PROTO", "STOP"} THEN stack
        ELSE IF code \in {"BINFLOAT", "BININT", "GLOBAL"} THEN push(arg)
        ELSE IF code = "NEWTRUE" THEN push(TRUE)
        ELSE IF code = "NEWFALSE" THEN push(FALSE)
        ELSE IF code = "EMPTY_LIST" THEN push(<<>>)
        ELSE IF code = "EMPTY_DICT" THEN push([x \in {} |-> None])
        ELSE IF code = "MARK" THEN Append(stack, Item("mark", 0))
        ELSE IF code = "NDARRAY" THEN push([i \in {} |-> FALSE])
        ELSE IF code = "BYTE"
        THEN LET a == stack[n].val
                 k == Cardinality(DOMAIN a)
             IN  [stack EXCEPT ![n].val =
                     [i \in 0 .. k |-> IF i = k THEN arg = 1 ELSE a[i]]]
        ELSE LET m == TopMark(stack)
                 items == AboveMark(stack)
                 below == SubSeq(stack, 1, m - 1)
             IN  IF code = "TUPLE"
                 THEN Append(below, Item("value", items))
                 ELSE IF code = "APPENDS"
                 THEN [below EXCEPT ![m - 1].val = @ \o items]
                 ELSE IF code = "SETITEMS"
                 THEN [below EXCEPT ![m - 1].val = setitems(@, items)]
                 ELSE \* REDUCE: the callable and its argument tuple
                      Append(SubSeq(stack, 1, n - 2),
                             Item("value",
                                  reduce(stack[n - 1].val, stack[n].val)))

\* the unpickler: the opcodes lo .. hi of the stream run in order on the stack;
\* the opcodes up to mid have run (half is a stack) before those after mid
RECURSIVE unpickle(_, _, _, _)
unpickle(stream, lo, hi, stack) ==
    IF lo > hi THEN stack
    ELSE IF lo = hi THEN step(stack, stream[lo])
    ELSE LET mid == (lo + hi) \div 2
             half == unpickle(stream, lo, mid, stack)
         IN  IF Len(half) >= 0
             THEN unpickle(stream, mid + 1, hi, half)
             ELSE half

\* pickle.load(f): the value on top of the stack at STOP
pickle_load(stream) ==
    LET stack == unpickle(stream, 1, Len(stream), <<>>)
    IN  stack[Len(stack)].val

\* save_sweep_result as it would be if it wrote the result without its
\* mu histories
save_sweep_result_short(result, key_order) ==
    File(pickle_dump([result EXCEPT
                        !.results =
                           [lam \in DOMAIN result.results |->
                               [result.results[lam] EXCEPT
                                  !.search_result.mu_history = <<>>]]],
                     key_order))

\* save_sweep_result: the file at path afterwards; key_order is the insertion
\* order of the results dict
save_sweep_result(result, key_order) == File(pickle_dump(result, key_order))

\* load_sweep_result on the file at path
load_sweep_result(file) ==
    IF ~file.exists
    THEN [outcome |-> "FileNotFoundError", value |-> None]
    ELSE [outcome |-> "returned", value |-> pickle_load(file.content)]

----------------------------------------------------------------------------
(* cli.py, precompute *)

\* int(x) of a non-negative float
int(x) == x[1] \div x[2]

\* round(x, 2) of a non-negative float: to the nearest hundredth, a tie to
\* the even one
round2(x) ==
    LET scaled == (100 * x[1]) \div x[2]
        rest == Rat((100 * x[1]) % x[2], x[2])
        up == \/ RatLess(Rat(1, 2), rest)
              \/ (RatEq(rest, Rat(1, 2)) /\ scaled % 2 = 1)
    IN  RatNorm(Rat(IF up THEN scaled + 1 ELSE scaled, 100))

\* the lambda values precompute sweeps
precompute_lambda_values(lambda_step, lambda_max) ==
    LET num_steps == int(Rat(lambda_max[1] * lambda_step[2],
                             lambda_max[2] * lambda_step[1]))
    IN  [k \in 1 .. num_steps |->
            round2(Rat((k - 1) * lambda_step[1], lambda_step[2]))]

\* the options the model gives precompute
LambdaStepInputs == {Rat(1, 2)}
LambdaMaxInputs ==
    {Rat(99, 100)} \cup {Rat(k, 2) : k \in 1 .. NumLambdas}

\* the insertion order of the results dict of the sweep
KeyOrder(sw) ==
    [k \in 1 .. Len(sw.collect_order) |->
        sw.lambda_values[sw.collect_order[k]]]

\* a cache file left by an earlier run: the saved result of an empty sweep
OldCache ==
    save_sweep_result(SweepResult([lam \in {} |-> None], <<>>), <<>>)

\* precompute up to the sweep: with a cache file and no --force it returns,
\* otherwise it calls sweep_lambda with the defaults for target and tolerance
Precompute ==
    /\ command.pc = "idle"
    /\ sweep.pc = "idle"
    /\ \E force \in BOOLEAN, skip_failures \in BOOLEAN,
          lambda_step \in LambdaStepInputs, lambda_max \in LambdaMaxInputs,
          max_workers \in MaxWorkersInputs :
          LET options == [pc |-> "idle",
                          force |-> force, skip_failures |-> skip_failures,
                          lambda_step |-> lambda_step,
                          lambda_max |-> lambda_max,
                          cache_before |-> cache_file,
                          loaded |-> command.loaded]
          IN  IF cache_file.exists /\ ~force
              THEN /\ command' = [options EXCEPT !.pc = "skipped"]
                   /\ UNCHANGED sweep
              ELSE /\ command' = [options EXCEPT !.pc = "sweeping"]
                   /\ sweep' = sweep_lambda(
                                  precompute_lambda_values(lambda_step,
                                                           lambda_max),
                                  Rat(1, 2), TARGET_TOLERANCE, max_workers,
                                  ~skip_failures)
    /\ UNCHANGED <<graph_data, opt_call, prev_call, search, cache_file,
                 adjacency, dissolve>>

\* sweep_lambda has returned: precompute saves the result and ends
SaveSweepResult ==
    /\ command.pc = "sweeping"
    /\ sweep.pc = "returned"
    /\ cache_file' = save_sweep_result(sweep.returned, KeyOrder(sweep))
    /\ command' = [command EXCEPT !.pc = "saved"]
    /\ UNCHANGED <<graph_data, opt_call, prev_call, search, sweep,
                 adjacency, dissolve>>

\* sweep_lambda has raised: the exception ends precompute
PrecomputeRaises ==
    /\ command.pc = "sweeping"
    /\ sweep.pc = "raised"
    /\ command' = [command EXCEPT !.pc = "raised"]
    /\ UNCHANGED <<graph_data, opt_call, prev_call, search, sweep, cache_file,
                 adjacency, dissolve>>

\* load_sweep_result on the cache path, once precompute has ended
LoadSweepResult ==
    /\ command.pc \in {"skipped", "saved", "raised"}
    /\ command.loaded = None
    /\ command' = [command EXCEPT !.loaded = load_sweep_result(cache_file)]
    /\ UNCHANGED <<graph_data, opt_call, prev_call, search, sweep, cache_file,
                 adjacency, dissolve>>

PersistInit ==
    /\ graph_data \in SweepGraphs
    /\ opt_call = NoCall
    /\ prev_call = NoCall
    /\ search = NoSearch
    /\ sweep = NoSweep
    /\ command = NoCommand
    /\ cache_file \in {NoFile, OldCache}
    /\ adjacency = NoAdjacency
    /\ dissolve = NoDissolve

PersistNext ==
    \/ Precompute
    \/ \E i \in 1 .. NumLambdas : TaskStart(i)
    \/ \E i \in 1 .. NumLambdas : TaskIterate(i)
    \/ \E i \in 1 .. NumLambdas : Collect(i)
    \/ Cancel
    \/ Propagate
    \/ SaveSweepResult
    \/ PrecomputeRaises
    \/ LoadSweepResult

PersistSpec == PersistInit /\ [][PersistNext]_vars

----------------------------------------------------------------------------
(* graph/adjacency.py *)

\* The geometries of a GeoDataFrame are unit squares on a grid; row k of the
\* frame (integer index k) is the square at cell gdf[k].
GridWidth == 6
GridHeight == 2
Cells == (0 .. GridWidth - 1) \X (0 .. GridHeight - 1)

GeoDataFrames ==
    UNION {{gdf \in [0 .. n - 1 -> Cells] :
               \A i, j \in 0 .. n - 1 : i # j => gdf[i] # gdf[j]} :
           n \in 2 .. NumNodes}

\* the members of a set of integers in ascending order
sorted(S) ==
    CHOOSE s \in [1 .. Cardinality(S) -> S] :
        \A i, j \in 1 .. Cardinality(S) : i < j => s[i] < s[j]

Distance(a, b) == IF a < b THEN b - a ELSE a - b

\* two squares share an edge or a corner
Touches(a, b) == a # b /\ Distance(a[1], b[1]) <= 1 /\ Distance(a[2], b[2]) <= 1

\* Queen.from_dataframe(gdf, use_index=False): the neighbors dict of the
\* weights, keyed 0 .. n-1
Queen(gdf) ==
    [i \in DOMAIN gdf |->
        sorted({j \in DOMAIN gdf : Touches(gdf[i], gdf[j])})]

\* w.islands: the ids without a neighbour, in id order
islands(w) == sorted({i \in DOMAIN w : w[i] = <<>>})

\* the squared distance of two centroids
CentroidDistance(a, b) ==
    (a[1] - b[1]) * (a[1] - b[1]) + (a[2] - b[2]) * (a[2] - b[2])

\* KNN.from_dataframe(gdf, k=1): for every geometry one other geometry with
\* the nearest centroid; among equally near ones the choice is the library's
KNN(gdf) ==
    {knn \in [DOMAIN gdf -> DOMAIN gdf] :
        \A i \in DOMAIN gdf :
            /\ knn[i] # i
            /\ \A k \in DOMAIN gdf \ {i} :
                  CentroidDistance(gdf[i], gdf[knn[i]])
                      <= CentroidDistance(gdf[i], gdf[k])}

\* W(neighbors): the weights object keeps the neighbor lists it is given
W(neighbors) == neighbors

\* the loop body of _attach_islands_manual as it would be if it linked the
\* island to its nearest neighbour in one direction only
attach_one_way(new_neighbors, island, nearest) ==
    [new_neighbors EXCEPT ![island] = Append(@, nearest)]

\* the loop body of _attach_islands_manual: the bidirectional connection
attach(new_neighbors, island, nearest) ==
    [[new_neighbors EXCEPT ![island] = Append(@, nearest)]
        EXCEPT ![nearest] = Append(@, island)]

\* the loop of _attach_islands_manual over the islands still to attach
RECURSIVE attach_islands(_, _, _)
attach_islands(new_neighbors, todo, knn) ==
    IF todo = <<>> THEN new_neighbors
    ELSE attach_islands(attach(new_neighbors, Head(todo), knn[Head(todo)]),
                        Tail(todo), knn)

_attach_islands_manual(w, knn) ==
    IF islands(w) = <<>> THEN w
    ELSE W(attach_islands(w, islands(w), knn))

\* the pairs (i, j) with i < j, by i in id order and j in list order
extract_edges(w) ==
    LET n == Cardinality(DOMAIN w)
        pairs(i) ==
            LET above == SelectSeq(w[i], LAMBDA j : i < j)
            IN  [k \in 1 .. Len(above) |-> <<i, above[k]>>]
    IN  Flatten([k \in 1 .. n |-> pairs(k - 1)])

AdjacencyResult(weights, edges, num_nodes, num_islands) ==
    [weights |-> weights, edges |-> edges, num_nodes |-> num_nodes,
     num_edges |-> Len(edges), num_islands_attached |-> num_islands]

build_adjacency(gdf, knn) ==
    LET num_nodes == Cardinality(DOMAIN gdf)
        queen == Queen(gdf)
        num_islands == Len(islands(queen))
        w == IF num_islands > 0 THEN _attach_islands_manual(queen, knn)
             ELSE queen
    IN  AdjacencyResult(w, extract_edges(w), num_nodes, num_islands)

\* One call of build_adjacency on a frame of 2 .. NumNodes geometries.
BuildAdjacency ==
    \E gdf \in GeoDataFrames :
        \E knn \in KNN(gdf) :
            /\ adjacency.pc = "idle"
            /\ adjacency' = [pc |-> "returned", gdf |-> gdf,
                             queen |-> Queen(gdf), knn |-> knn,
                             result |-> build_adjacency(gdf, knn)]
            /\ UNCHANGED <<graph_data, opt_call, prev_call, search, sweep,
                           command, cache_file, dissolve>>

AdjacencyInit ==
    /\ graph_data = None   \* the GraphData is built from the result
    /\ opt_call = NoCall
    /\ prev_call = NoCall
    /\ search = NoSearch
    /\ sweep = NoSweep
    /\ command = NoCommand
    /\ cache_file = NoFile
    /\ adjacency = NoAdjacency
    /\ dissolve = NoDissolve

AdjacencyNext == BuildAdjacency

AdjacencySpec == AdjacencyInit /\ [][AdjacencyNext]_vars

----------------------------------------------------------------------------
(* postprocess/dissolve.py *)

\* partition.sum() of a boolean array
num_selected(partition) ==
    Cardinality({i \in DOMAIN partition : partition[i]})

\* The merged geometry is the set of the rows merged; num_parts and
\* total_area_sqm are read off the geometry and are not modelled.
DissolveResult(geometry, num_tracts) ==
    [geometry |-> geometry, num_tracts |-> num_tracts]

\* the outcome of dissolve_partition: merged says whether union_all ran
Dissolved(partition) ==
    [outcome |-> "returned", message |-> "", merged |-> TRUE,
     result |-> DissolveResult({i \in DOMAIN partition : partition[i]},
                               num_selected(partition))]

DissolveError(message) ==
    [outcome |-> "ValueError", message |-> message, merged |-> FALSE,
     result |-> None]

\* dissolve_partition as it would be without the check of the selection
dissolve_partition_unchecked(gdf_len, partition) ==
    IF Cardinality(DOMAIN partition) # gdf_len
    THEN DissolveError("Partition length doesn't match GeoDataFrame length")
    ELSE Dissolved(partition)

dissolve_partition(gdf_len, partition) ==
    IF Cardinality(DOMAIN partition) # gdf_len
    THEN DissolveError("Partition length doesn't match GeoDataFrame length")
    ELSE IF num_selected(partition) = 0
    THEN DissolveError("No tracts selected (partition is all False)")
    ELSE Dissolved(partition)

\* the partitions of the modelled sweep results: boolean arrays over the
\* rows of the frame, or over one row less
PartitionInputs ==
    UNION {[0 .. n - 1 -> BOOLEAN] : n \in {NumNodes - 1, NumNodes}}

\* The call of dissolve_all_lambdas on a frame of NumNodes rows: results is
\* empty and the loop is before its first lambda.  A sweep result is given by
\* its lambda_values and, in their order, the partition stored for each.
DissolveAllLambdas ==
    \E k \in 1 .. NumLambdas :
        \E partitions \in [1 .. k -> PartitionInputs] :
            /\ dissolve.pc = "idle"
            /\ dissolve' =
                  [pc |-> "looping", gdf_len |-> NumNodes,
                   lambda_values |->
                       precompute_lambda_values(Rat(1, 2), Rat(k, 2)),
                   partitions |-> partitions, reached |-> 0,
                   merged |-> {}, results |-> <<>>, error |-> "",
                   returned |-> None]
            /\ UNCHANGED <<graph_data, opt_call, prev_call, search, sweep,
                           command, cache_file, adjacency>>

\* One iteration of the loop of dissolve_all_lambdas, and the return after
\* the last lambda.
DissolveLambda ==
    /\ dissolve.pc = "looping"
    /\ LET k == dissolve.reached + 1
           done == dissolve_partition(dissolve.gdf_len, dissolve.partitions[k])
           merged == IF done.merged THEN dissolve.merged \cup {k}
                     ELSE dissolve.merged
           results == Append(dissolve.results,
                             <<dissolve.lambda_values[k], done.result>>)
       IN  dissolve' =
             IF done.outcome # "returned"
             THEN [dissolve EXCEPT !.pc = "raised", !.reached = k,
                                   !.merged = merged,
                                   !.error = done.outcome]
             ELSE IF k = Len(dissolve.lambda_values)
             THEN [dissolve EXCEPT !.pc = "returned", !.reached = k,
                                   !.merged = merged, !.results = results,
                                   !.returned = results]
             ELSE [dissolve EXCEPT !.reached = k, !.merged = merged,
                                   !.results = results]
    /\ UNCHANGED <<graph_data, opt_call, prev_call, search, sweep,
                   command, cache_file, adjacency>>

DissolveInit ==
    /\ graph_data = None
    /\ opt_call = NoCall
    /\ prev_call = NoCall
    /\ search = NoSearch
    /\ sweep = NoSweep
    /\ command = NoCommand
    /\ cache_file = NoFile
    /\ adjacency = NoAdjacency
    /\ dissolve = NoDissolve

DissolveNext == DissolveAllLambdas \/ DissolveLambda

DissolveSpec == DissolveInit /\ [][DissolveNext]_vars

----------------------------------------------------------------------------
(* Properties of solve_partition, checked under SolveSpec *)

Returned(call) == call.called /\ call.outcome = "returned"

InvalidParameters(call) ==
    \/ RatLess(call.lambda_param, Rat(0, 1))
    \/ RatLess(Rat(1, 1), call.lambda_param)
    \/ RatLess(call.mu, Rat(0, 1))

\* C3: a call with lambda_param < 0, lambda_param > 1 or mu < 0 raises
\* ValueError before the flow network is built or maxflow is run: it does no
\* solver work and produces no OptimizationResult.
C3_InvalidParametersRaiseBeforeWork ==
    (opt_call.called /\ InvalidParameters(opt_call))
        => /\ opt_call.outcome = "ValueError"
           /\ opt_call.work = <<>>
           /\ opt_call.result = None

\* a call with a valid lambda and a negative mu (the second check) was rejected
C3_Witness ==
    /\ opt_call.called
    /\ RatLess(opt_call.mu, Rat(0, 1))
    /\ RatLeq(Rat(0, 1), opt_call.lambda_param)
    /\ RatLeq(opt_call.lambda_param, Rat(1, 1))
    /\ opt_call.outcome = "ValueError"
    /\ opt_call.message = "mu must be non-negative"

\* C4: solve_partition called with lambda_param = 1.0 raises ValueError instead
\* of building a network and returning an OptimizationResult.
C4_LambdaOneRaises ==
    (opt_call.called /\ RatEq(opt_call.lambda_param, Rat(1, 1)))
        => /\ opt_call.outcome = "ValueError"
           /\ opt_call.work = <<>>

Partitions(gd) == [0 .. (gd.num_nodes - 1) -> BOOLEAN]

EnergyOf(gd, call, partition) ==
    compute_energy(gd.attributes, gd.edges, partition, call.lambda_param, call.mu)

\* C5: the partition solve_partition returns attains the global minimum of
\* the energy: compute_energy at it is no larger than compute_energy at any of
\* the 2^N boolean partitions.
C5_SolverAttainsMinimumEnergy ==
    Returned(opt_call)
        => LET energy == EnergyOf(graph_data, opt_call,
                                  opt_call.result.partition)
           IN  \A x \in Partitions(graph_data) :
                  RatLeq(energy, EnergyOf(graph_data, opt_call, x))

\* a solve with 0 < lambda < 1 whose minimum selects some nodes but not all,
\* across an edge of positive length, and is strictly below the energy of
\* selecting nothing and of selecting everything
C5_Witness ==
    /\ Returned(opt_call)
    /\ RatLess(Rat(0, 1), opt_call.lambda_param)
    /\ RatLess(opt_call.lambda_param, Rat(1, 1))
    /\ \E e \in graph_data.edges :
          /\ opt_call.result.partition[e[1]] # opt_call.result.partition[e[2]]
          /\ graph_data.attributes.edge_lengths[e] > 0
    /\ \A x \in {[i \in Nodes |-> FALSE], [i \in Nodes |-> TRUE]} :
          RatLess(EnergyOf(graph_data, opt_call, opt_call.result.partition),
                  EnergyOf(graph_data, opt_call, x))

NetworkOf(gd, call) ==
    build_flow_network(gd.attributes, gd.edges, call.lambda_param, call.mu)

\* C6: for a fixed graph and a fixed lambda the selected population is
\* monotone non-decreasing in mu, ties between minimum cuts included.
C6_SelectedPopulationMonotoneInMu ==
    (Returned(prev_call) /\ Returned(opt_call)
       /\ prev_call.lambda_param = opt_call.lambda_param)
        => /\ RatLess(prev_call.mu, opt_call.mu)
                => prev_call.result.selected_population
                     <= opt_call.result.selected_population
           /\ RatLess(opt_call.mu, prev_call.mu)
                => opt_call.result.selected_population
                     <= prev_call.result.selected_population

\* two solves at mu1 < mu2 that select different populations, the second with
\* several partitions tying for the minimum cut
C6_Witness ==
    /\ Returned(prev_call) /\ Returned(opt_call)
    /\ prev_call.lambda_param = opt_call.lambda_param
    /\ RatLess(prev_call.mu, opt_call.mu)
    /\ 0 < prev_call.result.selected_population
    /\ prev_call.result.selected_population
         < opt_call.result.selected_population
    /\ Cardinality(MinCuts(NetworkOf(graph_data, opt_call))) > 1
    /\ Cardinality(MinCuts(NetworkOf(graph_data, prev_call))) > 1

\* C7: the partition of every OptimizationResult has exactly num_nodes boolean
\* entries, and selected_population plus the population of the unselected
\* nodes is total_population.
C7_PartitionExhaustive ==
    Returned(opt_call)
        => LET r == opt_call.result
               population == graph_data.attributes.population
           IN  /\ DOMAIN r.partition = 0 .. (graph_data.num_nodes - 1)
               /\ \A i \in DOMAIN r.partition : r.partition[i] \in BOOLEAN
               /\ r.selected_population
                    + SumOver(population,
                              {i \in DOMAIN population : ~r.partition[i]})
                  = r.total_population
               /\ r.total_population = SumOver(population, DOMAIN population)

\* a result that splits the population: both sides hold people
C7_Witness ==
    /\ Returned(opt_call)
    /\ 0 < opt_call.result.selected_population
    /\ opt_call.result.selected_population < opt_call.result.total_population

\* C19: for every valid (lambda, mu) the flow_value solve_partition returns
\* equals compute_energy at the returned partition plus the constant
\* mu * (total population).
C19_FlowValueIsEnergyPlusConstant ==
    Returned(opt_call)
        => RatEq(opt_call.result.flow_value,
                 RatAdd(EnergyOf(graph_data, opt_call,
                                 opt_call.result.partition),
                        RatMulInt(opt_call.mu,
                                  opt_call.result.total_population)))

\* a solve with 0 < lambda < 1 and mu > 0 that cuts an edge, with positive
\* flow and nonzero energy
C19_Witness ==
    /\ Returned(opt_call)
    /\ RatLess(Rat(0, 1), opt_call.lambda_param)
    /\ RatLess(opt_call.lambda_param, Rat(1, 1))
    /\ RatLess(Rat(0, 1), opt_call.mu)
    /\ \E e \in graph_data.edges :
          opt_call.result.partition[e[1]] # opt_call.result.partition[e[2]]
    /\ RatLess(Rat(0, 1), opt_call.result.flow_value)
    /\ ~RatEq(EnergyOf(graph_data, opt_call, opt_call.result.partition),
              Rat(0, 1))

\* C20: every OptimizationResult returned by solve_partition carries an energy
\* value equal to compute_energy at its own partition, 0 when no node is
\* selected.
C20_ResultCarriesEnergy ==
    Returned(opt_call)
        => /\ "energy" \in DOMAIN opt_call.result
           /\ opt_call.result.energy
                 = EnergyOf(graph_data, opt_call, opt_call.result.partition)
           /\ Selected(opt_call.result.partition) = {}
                 => opt_call.result.energy = Rat(0, 1)


\* mu * p_i < (1 - lambda) * a_i / rho^2 for node i in a call
RewardBelowCost(call, i) ==
    LET a == graph_data.attributes
    IN  call.mu[1] * a.population[i] * call.lambda_param[2] * a.rho * a.rho
          < (call.lambda_param[2] - call.lambda_param[1]) * a.area[i]
              * call.mu[2]

\* mu * p_i > (1 - lambda) * a_i / rho^2 for node i in a call
RewardAboveCost(call, i) ==
    LET a == graph_data.attributes
    IN  call.mu[1] * a.population[i] * call.lambda_param[2] * a.rho * a.rho
          > (call.lambda_param[2] - call.lambda_param[1]) * a.area[i]
              * call.mu[2]

----------------------------------------------------------------------------
(* Properties of find_optimal_mu, checked under SearchSpec *)

\* |selected_population - target_fraction * total_population| of a result, as
\* a rational
TargetGap(s, result) ==
    RatAbs(Rat(result.selected_population * s.target_fraction[2]
                 - s.target_fraction[1] * result.total_population,
               s.target_fraction[2]))

\* the gap is within tolerance * total_population
GapWithinTolerance(s, result) ==
    RatLeq(TargetGap(s, result),
           Rat(s.tolerance[1] * result.total_population, s.tolerance[2]))

Last(seq) == seq[Len(seq)]

Trial(k) ==
    solve_partition(graph_data, search.lambda_param, search.mu_history[k]).result

CapReached ==
    /\ search.pc = "done"
    /\ ~search.returned.converged

\* C10 as claimed: at the iteration cap the result returned is the trial
\* closest to the target among all trials of mu_history.
C10_ReturnsBestTrial ==
    CapReached
        => \A k \in 1 .. Len(search.mu_history) :
              RatLeq(TargetGap(search, search.returned.result),
                     TargetGap(search, Trial(k)))

\* C10 as amended: at the iteration cap the result returned is that of the
\* last trial, mu_history[-1], whether or not an earlier trial was closer.
C10_ReturnsLastTrial ==
    CapReached
        => /\ Len(search.mu_history) = search.max_iterations
           /\ search.returned.result = Trial(Len(search.mu_history))

\* a search that reached its cap and returned its last trial although an
\* earlier trial was strictly closer to the target
C10_Witness ==
    /\ CapReached
    /\ \E k \in 1 .. (Len(search.mu_history) - 1) :
          RatLess(TargetGap(search, Trial(k)),
                  TargetGap(search, search.returned.result))

\* C11: in every SearchResult returned by find_optimal_mu, mu_history has
\* iterations elements, they are the mu values of the solver calls in the
\* order the calls were made, result.mu is the last of them and
\* result.lambda_param is the lambda passed in.
C11_MuHistoryRecordsTrials ==
    search.pc = "done"
        => LET r == search.returned
           IN  /\ Len(r.mu_history) = r.iterations
               /\ Len(search.solved) = Len(r.mu_history)
               /\ \A k \in 1 .. Len(r.mu_history) :
                     /\ search.solved[k][2] = r.mu_history[k]
                     /\ search.solved[k][1] = search.lambda_param
               /\ r.result.mu = Last(r.mu_history)
               /\ r.result.lambda_param = search.lambda_param

\* a search has returned after several trials at different mu
C11_Witness ==
    /\ search.pc = "done"
    /\ search.returned.iterations >= 3
    /\ search.returned.mu_history[1] # search.returned.mu_history[2]
    /\ search.returned.mu_history[2] # search.returned.mu_history[3]


\* the search runs with the default arguments of find_optimal_mu
DefaultArguments ==
    /\ search.target_fraction = Rat(1, 2)
    /\ search.tolerance = TARGET_TOLERANCE
    /\ search.max_iterations = DEFAULT_MAX_ITERATIONS
    /\ search.initial_mu_min = DEFAULT_MU_MIN
    /\ search.initial_mu_max = _estimate_mu_max(graph_data)

\* the points k * mu_max / 2^(MaxIterations + 2) of [0, mu_max]: the trial
\* values a search of MaxIterations + 2 iterations could reach, and the ends
FineGrid(mu_max) ==
    LET steps == 2 ^ (MaxIterations + 2)
    IN  {RatNorm(Rat(k * mu_max[1], steps * mu_max[2])) : k \in 0 .. steps}

\* the mu at which the reward of node i alone meets its area cost
NodeThresholds(gd, lambda_param) ==
    {RatNorm(Rat((lambda_param[2] - lambda_param[1]) * gd.attributes.area[i],
                 lambda_param[2] * gd.attributes.rho * gd.attributes.rho
                    * gd.attributes.population[i]))
       : i \in {j \in Nodes : gd.attributes.population[j] > 0}}

\* some mu of [0, mu_max] gives a partition within the tolerance of the target
Achievable ==
    \E mu \in FineGrid(search.initial_mu_max)
                \cup NodeThresholds(graph_data, search.lambda_param) :
        /\ RatLeq(Rat(0, 1), mu)
        /\ RatLeq(mu, search.initial_mu_max)
        /\ LET call == solve_partition(graph_data, search.lambda_param, mu)
           IN  /\ call.outcome = "returned"
               /\ GapWithinTolerance(search, call.result)

C13_SatisfiedTargetFollowsConfiguredTarget ==
    search.pc = "done"
        => LET r == search.returned
           IN  /\ r.result.satisfied_target
                     <=> GapWithinTolerance(search, r.result)
               /\ r.converged => r.result.satisfied_target


\* the last trial selected less than the target population
UnderSelected(s) ==
    s.result.selected_population * s.target_fraction[2]
        < s.target_fraction[1] * s.result.total_population

\* every trial lies within the bounds the search started from
WithinInitialBracket(s) ==
    \A k \in DOMAIN s.mu_history :
        /\ RatLeq(s.initial_mu_min, s.mu_history[k])
        /\ RatLeq(s.mu_history[k], s.initial_mu_max)

\* twice the trial of this iteration is the sum of the ends of the bracket
TrialIsMidpoint ==
    RatEq(RatMulInt(Last(search'.mu_history), 2),
          RatAdd(search.mu_min, search.mu_max))

\* the bracket after the iteration lies within the bracket before it
BracketShrinks ==
    /\ RatLeq(search.mu_min, search'.mu_min)
    /\ RatLeq(search'.mu_max, search.mu_max)

\* C24 as claimed: each trial is the midpoint of the current bracket, the
\* bracket only shrinks, after a non-converged trial that selected less than
\* the target the next trial is strictly larger and otherwise strictly
\* smaller, and every trial lies within the initial [mu_min, mu_max].
C24_BracketOnlyShrinks ==
    [][search.pc = "loop" =>
          /\ TrialIsMidpoint
          /\ BracketShrinks
          /\ WithinInitialBracket(search')
          /\ search'.pc = "loop" =>
                IF UnderSelected(search')
                THEN RatLess(Last(search'.mu_history), Midpoint(search'))
                ELSE RatLess(Midpoint(search'), Last(search'.mu_history))]_vars

\* C24 as amended: each trial is the midpoint of the current bracket; when
\* the search starts with mu_min <= mu_max the bracket only shrinks, every
\* trial lies within the initial bracket, and after a non-converged trial
\* that selected less than the target the next trial is not smaller and
\* otherwise not larger, strictly so while the bracket is not a single point.
C24_BracketShrinksWhenOrdered ==
    [][search.pc = "loop" =>
          /\ TrialIsMidpoint
          /\ RatLeq(search.initial_mu_min, search.initial_mu_max) =>
                /\ BracketShrinks
                /\ WithinInitialBracket(search')
                /\ search'.pc = "loop" =>
                      LET mu == Last(search'.mu_history)
                          next == Midpoint(search')
                          strict == RatLess(search'.mu_min, search'.mu_max)
                      IN  IF UnderSelected(search')
                          THEN /\ RatLeq(mu, next)
                               /\ strict => RatLess(mu, next)
                          ELSE /\ RatLeq(next, mu)
                               /\ strict => RatLess(next, mu)]_vars

\* a search from mu_min < mu_max whose second trial was above the first and
\* whose third was below the second
C24_Witness ==
    /\ search.pc # "idle"
    /\ RatLess(search.initial_mu_min, search.initial_mu_max)
    /\ Len(search.mu_history) >= 3
    /\ RatLess(search.mu_history[1], search.mu_history[2])
    /\ RatLess(search.mu_history[3], search.mu_history[2])


\* find_optimal_mu was called without mu_max, with a lambda of [0, 1)
EstimatedBracket ==
    /\ search.pc # "idle"
    /\ search.initial_mu_max = _estimate_mu_max(graph_data)
    /\ RatLeq(Rat(0, 1), search.lambda_param)
    /\ RatLess(search.lambda_param, Rat(1, 1))

\* the call of solve_partition at the upper end of the initial bracket
AtMuMax ==
    solve_partition(graph_data, search.lambda_param, search.initial_mu_max)

\* C26: when mu_max is not given, find_optimal_mu starts from
\* mu_max = 10 * (sum of a_i / rho^2) / (sum of p_i), and for every lambda of
\* [0, 1) the partition at that mu selects nodes holding at least 90% of the
\* total population, so that it reaches every target_fraction up to 0.9.
C26_EstimatedMuMaxHasHeadroom ==
    EstimatedBracket =>
        LET a == graph_data.attributes
            at_mu_max == AtMuMax
        IN  /\ RatEq(search.initial_mu_max,
                     Rat(10 * SumOver(a.area, Nodes),
                         a.rho * a.rho * SumOver(a.population, Nodes)))
            /\ at_mu_max.outcome = "returned"
            /\ 10 * at_mu_max.result.selected_population
                  >= 9 * at_mu_max.result.total_population
            /\ RatLeq(search.target_fraction, Rat(9, 10)) =>
                  at_mu_max.result.selected_population * search.target_fraction[2]
                      >= search.target_fraction[1]
                            * at_mu_max.result.total_population

\* a search with boundary costs whose estimated mu_max leaves out a node
\* that holds population
C26_Witness ==
    /\ EstimatedBracket
    /\ RatLess(Rat(0, 1), search.lambda_param)
    /\ Len(search.mu_history) >= 1
    /\ \E i \in Nodes :
          /\ graph_data.attributes.population[i] > 0
          /\ ~AtMuMax.result.partition[i]

----------------------------------------------------------------------------
(* Properties of sweep_lambda, checked under SweepSpec *)

\* sweep_lambda has returned or raised
SweepOver == sweep.pc \in {"returned", "raised"}

\* the tasks whose search finished with converged = False
NonConverged ==
    {i \in DOMAIN sweep.futures :
        /\ sweep.futures[i].state = "finished"
        /\ sweep.futures[i].exception = ""
        /\ ~sweep.futures[i].result.search_result.converged}

\* the tasks whose search finished with converged = True
Converged ==
    {i \in DOMAIN sweep.futures :
        /\ sweep.futures[i].state = "finished"
        /\ sweep.futures[i].exception = ""
        /\ sweep.futures[i].result.search_result.converged}

\* the tasks that raised an exception
Raised ==
    {i \in DOMAIN sweep.futures : sweep.futures[i].exception # ""}

\* C1 as stated: with raise_on_failure = True, once the search of any lambda
\* has finished with converged = False, sweep_lambda raises RuntimeError and
\* returns no SweepResult, in every completion order.
C1_FailFastRaisesRuntimeError ==
    (SweepOver /\ sweep.raise_on_failure /\ NonConverged # {})
        => /\ sweep.pc = "raised"
           /\ sweep.error = "RuntimeError"
           /\ sweep.returned = None

\* C1 amended: with raise_on_failure = True, once the search of any lambda has
\* finished with converged = False, sweep_lambda returns no SweepResult and
\* raises: RuntimeError, or the exception of a task that raised and was
\* collected before any non-converged result; RuntimeError when no task raised.
C1_FailFastRaises ==
    (SweepOver /\ sweep.raise_on_failure /\ NonConverged # {})
        => /\ sweep.pc = "raised"
           /\ sweep.returned = None
           /\ \/ sweep.error = "RuntimeError"
              \/ \E i \in Raised \cap sweep.collected :
                    sweep.error = sweep.futures[i].exception
           /\ Raised = {} => sweep.error = "RuntimeError"

\* a fail-fast sweep has raised RuntimeError on a non-converged lambda after
\* the result of a converged lambda had been collected
C1_Witness ==
    /\ sweep.pc = "raised"
    /\ sweep.raise_on_failure
    /\ sweep.error = "RuntimeError"
    /\ NonConverged \cap sweep.collected # {}
    /\ Converged \cap sweep.collected # {}

\* C2: with raise_on_failure = False, when some search does not converge and
\* no task raises, sweep_lambda runs every lambda to completion and returns a
\* SweepResult with an entry for every lambda of lambda_values, where the
\* non-converged lambda has converged = False and all_converged is False.
C2_BestEffortReturnsEveryLambda ==
    /\ (sweep.pc # "idle" /\ ~sweep.raise_on_failure /\ Raised = {})
          => sweep.pc \in {"collecting", "returned"}
    /\ (SweepOver /\ ~sweep.raise_on_failure /\ Raised = {}
            /\ NonConverged # {})
          => /\ sweep.pc = "returned"
             /\ \A i \in DOMAIN sweep.futures :
                   sweep.futures[i].state = "finished"
             /\ DOMAIN sweep.returned.results =
                   {sweep.lambda_values[i] : i \in DOMAIN sweep.lambda_values}
             /\ \A i \in DOMAIN sweep.futures :
                   sweep.returned.results[sweep.lambda_values[i]]
                       = sweep.futures[i].result
             /\ \A i \in NonConverged :
                   ~sweep.returned.results[sweep.lambda_values[i]]
                        .search_result.converged
             /\ ~sweep.returned.all_converged

\* a best-effort sweep has returned with one lambda converged and another not
C2_Witness ==
    /\ sweep.pc = "returned"
    /\ ~sweep.raise_on_failure
    /\ Raised = {}
    /\ NonConverged # {}
    /\ Converged # {}
    /\ ~sweep.returned.all_converged

\* C14: a SweepResult returned by sweep_lambda has lambda_values equal to the
\* input list in the same order, results keyed by exactly the input lambda
\* values, and results[lam].lambda_param = lam for every key, in whatever
\* order the tasks complete.
C14_ResultsKeyedByInputLambdas ==
    sweep.pc = "returned"
        => LET r == sweep.returned
           IN  /\ r.lambda_values = sweep.lambda_values
               /\ DOMAIN r.results =
                     {sweep.lambda_values[i] : i \in DOMAIN sweep.lambda_values}
               /\ \A lam \in DOMAIN r.results :
                     r.results[lam].lambda_param = lam

\* a sweep has returned after its futures were collected in an order other
\* than that of lambda_values
C14_Witness ==
    /\ sweep.pc = "returned"
    /\ Len(sweep.lambda_values) >= 2
    /\ \E k \in 1 .. (Len(sweep.collect_order) - 1) :
          sweep.collect_order[k] > sweep.collect_order[k + 1]

\* the sum of the iterations of the searches of the futures in I
RECURSIVE FutureIterations(_)
FutureIterations(I) ==
    IF I = {} THEN 0
    ELSE LET i == CHOOSE j \in I : TRUE
         IN  sweep.futures[i].search.iteration + FutureIterations(I \ {i})

\* C15: in every SweepResult returned by sweep_lambda, total_iterations is the
\* sum of search_result.iterations over the per-lambda results, and
\* all_converged is true exactly when every per-lambda result converged.
C15_AggregatesMatchResults ==
    sweep.pc = "returned"
        => LET r == sweep.returned
           IN  /\ r.total_iterations = FutureIterations(DOMAIN sweep.futures)
               /\ \A i \in DOMAIN sweep.futures :
                     r.results[sweep.lambda_values[i]].search_result.iterations
                        = sweep.futures[i].search.iteration
               /\ r.all_converged
                     <=> \A lam \in DOMAIN r.results :
                            r.results[lam].search_result.converged
               /\ r.all_converged <=> NonConverged = {}

\* a sweep of several lambdas has returned with searches of several
\* iterations each, one of them not converged
C15_Witness ==
    /\ sweep.pc = "returned"
    /\ Len(sweep.lambda_values) >= 2
    /\ sweep.returned.total_iterations > Len(sweep.lambda_values)
    /\ ~sweep.returned.all_converged
    /\ Converged # {}

\* C16: in fail-fast mode, once a non-converged lambda has been observed, a
\* task that is still running finishes at most the solver call it is in and
\* then stops, making no further bisection iteration.
C16_RunningTasksStopAfterCurrentSolve ==
    [][(sweep.pc \in {"cancelling", "shutdown"} /\ sweep.raise_on_failure
            /\ sweep.error = "RuntimeError")
          => \A i \in DOMAIN sweep.futures :
                (/\ sweep.futures[i].state = "running"
                 /\ sweep'.futures[i] # sweep.futures[i])
                   => sweep'.futures[i].state # "running"]_vars

----------------------------------------------------------------------------
(* Properties of the sweep cache, checked under PersistSpec *)

C18_OnlyCompleteResultsPersisted ==
    command.pc # "idle"
        => /\ cache_file # command.cache_before
                => /\ command.pc = "saved"
                   /\ sweep.pc = "returned"
                   /\ sweep.collected = DOMAIN sweep.futures
                   /\ cache_file.exists
                   /\ LET saved == pickle_load(cache_file.content)
                      IN  /\ DOMAIN saved.results =
                                {sweep.lambda_values[i] :
                                    i \in DOMAIN sweep.lambda_values}
                          /\ \A i \in DOMAIN sweep.futures :
                                saved.results[sweep.lambda_values[i]]
                                    = sweep.futures[i].result
           /\ command.pc = "saved" => cache_file # command.cache_before
           /\ command.pc = "raised" => cache_file = command.cache_before

\* a fail-fast precompute --force has raised on a non-converged lambda after
\* another lambda had converged, and the old cache file is still in place
C18_Witness ==
    /\ command.pc = "raised"
    /\ sweep.error = "RuntimeError"
    /\ Converged # {}
    /\ command.cache_before = OldCache
    /\ cache_file = OldCache

----------------------------------------------------------------------------
(* Properties of build_adjacency, checked under AdjacencySpec *)

\* the nodes without a contiguity neighbour
FormerIslands == {i \in DOMAIN adjacency.queen : adjacency.queen[i] = <<>>}

\* C21: the edge list returned by build_adjacency is canonical: every pair
\* (i, j) has i < j and no pair occurs twice, also after island attachment.
C21_EdgeListCanonical ==
    adjacency.pc = "returned" =>
        LET edges == adjacency.result.edges
        IN  /\ \A k \in DOMAIN edges : edges[k][1] < edges[k][2]
            /\ \A k, l \in DOMAIN edges : k # l => edges[k] # edges[l]

\* C22: after build_adjacency on N >= 2 geometries every node appears in an
\* edge of the returned list, each former island and its nearest neighbour
\* are in each other's neighbor list, and num_islands_attached is the number
\* of nodes that had no contiguity neighbour.
C22_NoIslandRemains ==
    adjacency.pc = "returned" =>
        LET r == adjacency.result
        IN  /\ \A i \in DOMAIN adjacency.gdf :
                  \E k \in DOMAIN r.edges : i \in {r.edges[k][1], r.edges[k][2]}
            /\ \A i \in FormerIslands :
                  LET nearest == adjacency.knn[i]
                  IN  /\ \E k \in DOMAIN r.weights[i] :
                            r.weights[i][k] = nearest
                      /\ \E k \in DOMAIN r.weights[nearest] :
                            r.weights[nearest][k] = i
            /\ r.num_islands_attached = Cardinality(FormerIslands)
            /\ r.num_nodes = Cardinality(DOMAIN adjacency.gdf)

\* an island was attached to a node that was not an island, beside nodes
\* that were contiguous from the start
C22_Witness ==
    /\ adjacency.pc = "returned"
    /\ \E i \in FormerIslands : adjacency.knn[i] \notin FormerIslands
    /\ Cardinality(FormerIslands) < Cardinality(DOMAIN adjacency.gdf) - 1

----------------------------------------------------------------------------
(* Properties of dissolve_all_lambdas, checked under DissolveSpec *)

\* the partition of the k-th lambda cannot be dissolved
Undissolvable(k) ==
    \/ Cardinality(DOMAIN dissolve.partitions[k]) # dissolve.gdf_len
    \/ \A i \in DOMAIN dissolve.partitions[k] : ~dissolve.partitions[k][i]

\* C23: dissolve_partition raises ValueError, before any geometry is merged,
\* when the partition length differs from the number of geometries or when
\* the partition selects no node; dissolve_all_lambdas raises as soon as it
\* reaches such a lambda and returns no results for any lambda.
C23_DissolveRaisesBeforeMerging ==
    dissolve.pc # "idle" =>
        \A k \in 1 .. dissolve.reached :
            Undissolvable(k) =>
                /\ dissolve.pc = "raised"
                /\ dissolve.error = "ValueError"
                /\ k \notin dissolve.merged
                /\ dissolve.reached = k
                /\ dissolve.returned = None

\* the loop dissolved a first lambda and raised on a second one whose
\* partition has the length of the frame and is all False
C23_Witness ==
    /\ dissolve.pc = "raised"
    /\ dissolve.reached >= 2
    /\ 1 \in dissolve.merged
    /\ Cardinality(DOMAIN dissolve.partitions[dissolve.reached])
          = dissolve.gdf_len
    /\ Undissolvable(dissolve.reached)

----------------------------------------------------------------------------
(* Independence of the tasks of a sweep, checked under SweepSpec *)

\* a call of find_optimal_mu run on its own from the state s to its end
RECURSIVE RunAlone(_, _)
RunAlone(gd, s) == IF s.pc = "loop" THEN RunAlone(gd, iterate(gd, s)) ELSE s

\* what find_optimal_mu returns for lam, run alone with the target and the
\* tolerance of the sweep
Alone(lam) ==
    RunAlone(graph_data,
             find_optimal_mu(graph_data, lam, sweep'.target_fraction,
                             sweep'.tolerance, DEFAULT_MAX_ITERATIONS,
                             DEFAULT_MU_MIN, None)).returned

\* the lambdas whose entry of results this step stores or changes
Stored ==
    {lam \in DOMAIN sweep'.results :
        \/ sweep.pc = "idle"
        \/ lam \notin DOMAIN sweep.results
        \/ sweep'.results[lam] # sweep.results[lam]}

\* C27: for every lambda the search_result stored by sweep_lambda (partition,
\* iterations, mu_history, converged) is what find_optimal_mu returns when it
\* runs alone for that lambda with the same target and tolerance, for any
\* max_workers and any interleaving of the tasks: every step of the sweep
\* leaves the shared GraphData, the target and the tolerance as they were,
\* and every entry of results it stores or changes is the result of the
\* search run alone.
C27_ResultsIndependentOfScheduling ==
    [][/\ graph_data' = graph_data
       /\ sweep.pc # "idle" =>
             /\ sweep'.pc # "idle"
             /\ sweep'.target_fraction = sweep.target_fraction
             /\ sweep'.tolerance = sweep.tolerance
       /\ sweep'.pc # "idle" =>
             \A lam \in Stored :
                 /\ sweep'.results[lam].lambda_param = lam
                 /\ sweep'.results[lam].search_result = Alone(lam)]_vars

\* a sweep of two workers has returned, the second lambda collected first,
\* with searches of several trials that ended on different partitions
C27_Witness ==
    /\ sweep.pc = "returned"
    /\ sweep.max_workers = 2
    /\ Len(sweep.collect_order) >= 2
    /\ sweep.collect_order[1] = 2
    /\ \E l1, l2 \in DOMAIN sweep.returned.results :
          /\ sweep.returned.results[l1].search_result.result.partition
                # sweep.returned.results[l2].search_result.result.partition
          /\ sweep.returned.results[l1].search_result.iterations >= 2

----------------------------------------------------------------------------
(* Cancellation and exceptions in sweep_lambda, checked under SweepSpec *)

\* the loop has met a non-converged result in fail-fast mode
FailedFast ==
    /\ sweep.pc \in {"cancelling", "shutdown", "raised"}
    /\ sweep.raise_on_failure
    /\ sweep.error = "RuntimeError"

\* C28 as claimed: in fail-fast mode a task that had not started when the
\* first non-convergence was observed is cancelled and never executes a
\* solver call, and no result of another lambda is returned.
C28_UnstartedTasksNeverRun ==
    FailedFast =>
        /\ \A i \in sweep.pending_at_failure :
              /\ sweep.futures[i].state \in {"pending", "cancelled"}
              /\ sweep.futures[i].search = NoSearch
              /\ sweep.pc # "cancelling"
                    => sweep.futures[i].state = "cancelled"
        /\ sweep.returned = None

\* C28 as amended: in fail-fast mode a task whose future is still pending
\* when the cancellation loop reaches it is cancelled and never executes a
\* solver call; after that loop no task is left pending; and no result of
\* any lambda is returned.  A task that a worker takes off the queue between
\* the observation and the cancel() of its future runs its search.
C28_CancelledTasksNeverRun ==
    [][FailedFast =>
          /\ sweep'.returned = None
          /\ sweep'.pc # "returned"
          /\ sweep.pc # "cancelling" => Pending(sweep) = {}
          /\ \A i \in DOMAIN sweep.futures :
                /\ sweep.futures[i].state = "cancelled"
                      => /\ sweep.futures[i].search = NoSearch
                         /\ sweep'.futures[i] = sweep.futures[i]
                /\ (/\ sweep.pc = "cancelling"
                    /\ sweep.cancel_next = i
                    /\ sweep'.cancel_next = i + 1
                    /\ sweep.futures[i].state = "pending")
                      => sweep'.futures[i].state = "cancelled"]_vars

\* a fail-fast sweep has raised after cancelling a task that no worker had
\* started
C28_Witness ==
    /\ FailedFast
    /\ sweep.pc = "raised"
    /\ \E i \in sweep.pending_at_failure :
          /\ sweep.futures[i].state = "cancelled"
          /\ sweep.futures[i].search = NoSearch

\* the cancellation loop has called cancel() on every future
CancelRequested ==
    /\ sweep.cancel_next = Len(sweep.futures) + 1
    /\ Pending(sweep) = {}

\* no lambda was submitted twice, and a task that raised made the one solver
\* call that raised
NotRetried ==
    /\ Len(sweep.futures) = Len(sweep.lambda_values)
    /\ \A i \in Raised : sweep.futures[i].search.solver_calls = 1

\* C29 as claimed: if any task raises an exception, sweep_lambda requests the
\* cancellation of the remaining futures and re-raises that exception, with
\* raise_on_failure True and False; no SweepResult is returned and the
\* failing lambda is not retried.
C29_TaskExceptionReraised ==
    (SweepOver /\ Raised # {})
        => /\ sweep.pc = "raised"
           /\ \E i \in Raised : sweep.error = sweep.futures[i].exception
           /\ sweep.returned = None
           /\ CancelRequested
           /\ NotRetried

\* C29 as amended: if any task raises an exception, sweep_lambda calls
\* cancel() on every future, returns no SweepResult and retries nothing; it
\* re-raises the exception of the first task collected that raised, except
\* that with raise_on_failure = True a non-converged result collected before
\* it makes the sweep raise RuntimeError instead.
C29_CollectedExceptionReraised ==
    (SweepOver /\ Raised # {})
        => /\ sweep.pc = "raised"
           /\ sweep.returned = None
           /\ CancelRequested
           /\ NotRetried
           /\ \/ \E i \in Raised \cap sweep.collected :
                    /\ sweep.error = sweep.futures[i].exception
                    /\ Last(sweep.collect_order) = i
              \/ /\ sweep.raise_on_failure
                 /\ sweep.error = "RuntimeError"
                 /\ Last(sweep.collect_order) \in NonConverged
           /\ ~sweep.raise_on_failure
                 => \E i \in Raised \cap sweep.collected :
                       sweep.error = sweep.futures[i].exception

\* a best-effort sweep has re-raised the ValueError of a task after the
\* result of another lambda had been collected
C29_Witness ==
    /\ sweep.pc = "raised"
    /\ ~sweep.raise_on_failure
    /\ sweep.error = "ValueError"
    /\ Raised \cap sweep.collected # {}
    /\ (Converged \cup NonConverged) \cap sweep.collected # {}

----------------------------------------------------------------------------
(* The lambda values of precompute, checked under PersistSpec *)

\* C30: precompute sweeps the lambda values 0, step, 2*step, ... from 0 up
\* to but not including lambda_max: every multiple of lambda_step strictly
\* below lambda_max, none at or above it, in ascending order.
C30_SweepsMultiplesBelowMax ==
    command.pc \in {"sweeping", "saved", "raised"} =>
        LET lambda_step == command.lambda_step
            values == sweep.lambda_values
        IN  /\ \A k \in 0 .. (NumLambdas + 1) :
                  RatLess(RatMulInt(lambda_step, k), command.lambda_max)
                     <=> \E i \in DOMAIN values :
                            RatEq(values[i], RatMulInt(lambda_step, k))
            /\ \A i \in DOMAIN values :
                  RatEq(values[i], RatMulInt(lambda_step, i - 1))

====
